---- MODULE Spec2Model ----
(***************************************************************************)
(* Model of the two co-signing scripts of the multisig repository:         *)
(*   sign.py         run()   Ledger device, signs and broadcasts            *)
(*   sign_trezor.py  main()  Trezor device, signs and prints the raw tx     *)
(* One run of one script is one behaviour.  Each statement (or group of     *)
(* statements that cannot fail separately) is one action; an exception      *)
(* raised by a statement propagates out of the script and ends the run.     *)
(* Unassigned Python locals are the empty sequence <<>>, assigned ones a    *)
(* one-element sequence <<value>>.  Text typed by the operator is a         *)
(* sequence of one-character strings.                                       *)
(***************************************************************************)
EXTENDS Integers, Sequences, FiniteSets, TLC

\* ------------------------------------------------------------------ bounds
\* largest account index, transaction id and gas price (gwei) the operator types
MaxTyped == 6
\* largest nonce the node reports for the sending account
MaxNonce == 1

\* --------------------------------------------------------------- constants
\* ledgereth.accounts.get_accounts(count=5)
AccountCount == 5
\* 'gas': 200000 in sign.py
GasLimitSign == 200000
\* gas_limit = 200000 in sign_trezor.py
GasLimitTrezor == 200000
\* confirmTransaction(47) in sign_trezor.py
TrezorTxnId == 47
\* chain_id=1 in sign_trezor.py
TrezorChainId == 1
\* units['gwei'] of w3.toWei(.., 'gwei')
GweiInWei == 1000000000
\* width in bytes of a uint256 ABI word
WordBytes == 32

\* ----------------------------------------------------------- text <-> int
Digits == <<"0", "1", "2", "3", "4", "5", "6", "7", "8", "9">>

IsDigit(c) == \E i \in 1..10 : Digits[i] = c

DigitValue(c) == (CHOOSE i \in 1..10 : Digits[i] = c) - 1

IsSpace(c) == c \in {" ", "\t", "\n", "\r"}

RECURSIVE LStrip(_)
LStrip(s) == IF s # <<>> /\ IsSpace(Head(s)) THEN LStrip(Tail(s)) ELSE s

RECURSIVE RStrip(_)
RStrip(s) ==
    IF s # <<>> /\ IsSpace(s[Len(s)]) THEN RStrip(SubSeq(s, 1, Len(s) - 1)) ELSE s

\* digits with single underscores between them, as int() accepts
ValidBody(b) ==
    /\ Len(b) > 0
    /\ IsDigit(b[1])
    /\ IsDigit(b[Len(b)])
    /\ \A i \in 1..Len(b) : IsDigit(b[i]) \/ b[i] = "_"
    /\ \A i \in 1..(Len(b) - 1) : ~(b[i] = "_" /\ b[i + 1] = "_")

RECURSIVE BodyValue(_)
BodyValue(b) ==
    IF b = <<>> THEN 0
    ELSE IF b[Len(b)] = "_" THEN BodyValue(SubSeq(b, 1, Len(b) - 1))
    ELSE 10 * BodyValue(SubSeq(b, 1, Len(b) - 1)) + DigitValue(b[Len(b)])

\* Python int(text): [ok |-> FALSE] stands for ValueError
ParseInt(s) ==
    LET t    == RStrip(LStrip(s))
        neg  == t # <<>> /\ Head(t) = "-"
        sign == t # <<>> /\ Head(t) \in {"-", "+"}
        body == IF sign THEN Tail(t) ELSE t
    IN  IF ValidBody(body)
        THEN [ok |-> TRUE, value |-> IF neg THEN 0 - BodyValue(body) ELSE BodyValue(body)]
        ELSE [ok |-> FALSE, value |-> 0]

\* decimal text of an integer, as the operator types it
RECURSIVE NatText(_)
NatText(n) ==
    IF n < 10 THEN <<Digits[n + 1]>> ELSE Append(NatText(n \div 10), Digits[(n % 10) + 1])

IntText(n) == IF n < 0 THEN <<"-">> \o NatText(0 - n) ELSE NatText(n)

\* ------------------------------------------------------------- bytes, hex
HexChars == <<"0", "1", "2", "3", "4", "5", "6", "7", "8", "9",
              "a", "b", "c", "d", "e", "f">>

UpperHexChars == <<"0", "1", "2", "3", "4", "5", "6", "7", "8", "9",
                   "A", "B", "C", "D", "E", "F">>

IsHexChar(c) == \E i \in 1..16 : HexChars[i] = c \/ UpperHexChars[i] = c

HexValue(c) == (CHOOSE i \in 1..16 : HexChars[i] = c \/ UpperHexChars[i] = c) - 1

\* bytes.hex(): two lower-case digits per byte
ToHex(bytes) ==
    [i \in 1..(2 * Len(bytes)) |->
        IF i % 2 = 1
        THEN HexChars[(bytes[(i + 1) \div 2] \div 16) + 1]
        ELSE HexChars[(bytes[i \div 2] % 16) + 1]]

\* bytes.fromhex(text): [ok |-> FALSE] stands for ValueError
HexBytes(h) ==
    [i \in 1..(Len(h) \div 2) |-> 16 * HexValue(h[2 * i - 1]) + HexValue(h[2 * i])]

FromHex(h) ==
    IF Len(h) % 2 = 0 /\ \A i \in 1..Len(h) : IsHexChar(h[i])
    THEN [ok |-> TRUE, value |-> HexBytes(h)]
    ELSE [ok |-> FALSE, value |-> <<>>]

\* big-endian bytes of n, len bytes wide
RECURSIVE ToBytesBE(_, _)
ToBytesBE(n, len) ==
    IF len = 0 THEN <<>> ELSE Append(ToBytesBE(n \div 256, len - 1), n % 256)

\* ------------------------------------------------------ library behaviour
\* Python integers are unbounded: a wei amount is kept as hi * 10^9 + lo
PyMul(number, unit_value) ==
    [hi |-> number * (unit_value \div GweiInWei)
              + ((number * (unit_value % GweiInWei)) \div GweiInWei),
     lo |-> (number * (unit_value % GweiInWei)) % GweiInWei]

\* toWei with the unit ignored: the number is taken as wei
toWeiIgnoringUnit(number, unit_value) ==
    IF number < 0
    THEN [ok |-> FALSE, value |-> PyMul(0, 1)]
    ELSE [ok |-> TRUE, value |-> PyMul(number, 1)]

\* w3.toWei(number, unit_value): a negative amount is a ValueError ([ok |-> FALSE])
toWei(number, unit_value) ==
    IF number < 0
    THEN [ok |-> FALSE, value |-> PyMul(0, unit_value)]
    ELSE [ok |-> TRUE, value |-> PyMul(number, unit_value)]

\* first four bytes of keccak256("confirmTransaction(uint256)") = c01a8c84
ConfirmTransactionSelector == <<192, 26, 140, 132>>

\* multisig.functions.confirmTransaction(id): the ABI-encoded call, as 0x-hex text
confirmTransaction(id) ==
    <<"0", "x">> \o ToHex(ConfirmTransactionSelector \o ToBytesBE(id, WordBytes))

\* a uint256 argument must not be negative
IsUint256(id) == id >= 0

\* .build_transaction(options): the unsigned transaction descriptor; the node
\* supplies the nonce, the contract object the destination, value defaults to 0
BuildTransaction(contract, from, call_data, options, nonce) ==
    [to       |-> contract.address,
     from     |-> from,
     value    |-> 0,
     data     |-> call_data,
     gas      |-> options.gas,
     gasPrice |-> options.gasPrice,
     nonce    |-> nonce]

\* rlp.encode(items): the serialisation, kept as the item list it encodes
RlpEncode(items) == [rlp |-> items]

\* list[int]: negative indices count from the end, others are an IndexError
PyIndexOk(i, len) == (0 - len) <= i /\ i < len

\* indexing that counts from 1
PyIndexOneBased(list, i) == list[((i - 1) % Len(list)) + 1]

PyIndex(list, i) == IF i < 0 THEN list[i + Len(list) + 1] ELSE list[i + 1]

\* ---------------------------------------------------------- environment
\* the accounts the Ledger derives
LedgerAccounts == [i \in 1..AccountCount |-> [address |-> <<"ledger", i - 1>>]]

\* address literal of sign_trezor.py (lines 34, 54 and 63)
TrezorMultisig == "0xA2201234A4652a704f5539058Ccb9ab6EBcD486B"

\* what the operator may type at the "multisig address: " prompt
AddressInputs == {TrezorMultisig, "0x<another checksummed address>", "not an address"}

\* w3.eth.contract rejects text that is not a checksummed address
IsAddress(a) == a \in {TrezorMultisig, "0x<another checksummed address>"}

\* what the operator may type at a prompt that is read with int()
IntInputs ==
    {IntText(n) : n \in (0 - (MaxTyped + 1))..MaxTyped}
        \cup {IntText(TrezorTxnId), <<>>, <<"a">>, <<" ", "3", " ">>, <<"+", "2">>,
              <<"1", "_", "0">>, <<"1", ".", "5">>, <<"_", "1">>}

\* what the operator may type at "sign and broadcast (y/n)? "
AnswerInputs == {<<"y">>, <<"Y">>, <<"y", "e", "s">>, <<"n">>, <<>>, <<" ", "y">>}

\* signatures (v, r, s) the device may return
Signatures == {<<37, "r1", "s1">>, <<38, "r2", "s2">>}

Nonces == 0..MaxNonce

\* ------------------------------------------------------------------ state
VARIABLES
    script,          \* "sign" or "sign_trezor"
    pc,              \* next statement of the running script
    error,           \* <<>> or <<name of the exception that ended the run>>
    log,             \* steps completed so far, in order
    prompts,         \* prompts shown so far and what was typed at each, in order
    stdout,          \* what was printed so far
    accounts,        \* sign.py: accounts
    account_id,      \* sign.py: account_id
    default_account, \* sign.py: w3.eth.default_account
    multisig,        \* the contract object
    owner_checks,    \* isOwner calls made: [account, result]
    txn_id,          \* sign.py: txn_id
    gas_price,       \* gas_price
    gas_limit,       \* sign_trezor.py: gas_limit
    txn,             \* sign.py: the descriptor; sign_trezor.py: the encoded result
    x,               \* sign_trezor.py: the descriptor
    u_data,          \* sign_trezor.py: _data
    tx,              \* sign_trezor.py: the device's signature
    data,            \* sign_trezor.py: data
    rlp_prefix,      \* sign_trezor.py: rlp_prefix
    res,             \* sign.py: res
    device_requests, \* sign requests the device received
    broadcasts       \* raw transactions sent to the node

ioVars == <<log, prompts, stdout>>

ledgerVars == <<accounts, account_id, default_account, owner_checks, txn_id, res>>

trezorVars == <<gas_limit, x, u_data, tx, data, rlp_prefix>>

sharedVars == <<multisig, gas_price, txn, device_requests, broadcasts>>

vars == <<script, pc, error, ioVars, ledgerVars, trezorVars, sharedVars>>

Init ==
    /\ script \in {"sign", "sign_trezor"}
    /\ pc = IF script = "sign" THEN "s_connect" ELSE "t_module"
    /\ error = <<>>
    /\ log = <<>>
    /\ prompts = <<>>
    /\ stdout = <<>>
    /\ accounts = <<>>
    /\ account_id = <<>>
    /\ default_account = <<>>
    /\ multisig = <<>>
    /\ owner_checks = <<>>
    /\ txn_id = <<>>
    /\ gas_price = <<>>
    /\ gas_limit = <<>>
    /\ txn = <<>>
    /\ x = <<>>
    /\ u_data = <<>>
    /\ tx = <<>>
    /\ data = <<>>
    /\ rlp_prefix = <<>>
    /\ res = <<>>
    /\ device_requests = <<>>
    /\ broadcasts = <<>>

\* an exception propagates out of the script: the run ends where it was raised
Raise(name) ==
    /\ pc' = "raised"
    /\ error' = <<name>>

Goto(label) ==
    /\ pc' = label
    /\ error' = error

\* ---------------------------------------------------------------- sign.py
\* lines 11-12: the provider URL is read from the environment
Connect ==
    /\ script = "sign" /\ pc = "s_connect"
    /\ \/ /\ Raise("KeyError")
          /\ UNCHANGED log
       \/ /\ Goto("s_accounts")
          /\ log' = Append(log, "connect")
    /\ UNCHANGED <<script, prompts, stdout, ledgerVars, trezorVars, sharedVars>>

\* lines 14-18: the device lists its accounts, which are printed
GetAccounts ==
    /\ script = "sign" /\ pc = "s_accounts"
    /\ \/ /\ Raise("LedgerError")
          /\ UNCHANGED <<accounts, log, stdout>>
       \/ /\ Goto("s_choose")
          /\ accounts' = LedgerAccounts
          /\ log' = Append(log, "get_accounts")
          /\ stdout' = Append(stdout, [kind |-> "accounts", accounts |-> LedgerAccounts])
    /\ UNCHANGED <<script, prompts, account_id, default_account, owner_checks,
                   txn_id, res, trezorVars, sharedVars>>

\* ChooseAccount with text that is no integer taken as index 0
ChooseAccountDefaulting ==
    /\ script = "sign" /\ pc = "s_choose"
    /\ \E typed \in IntInputs :
          LET i == ParseInt(typed) IN
          /\ prompts' = Append(prompts, [prompt |-> "choose account: ", typed |-> typed])
          /\ account_id' = <<typed>>
          /\ IF i.ok /\ ~PyIndexOk(i.value, Len(accounts))
             THEN /\ Raise("IndexError")
                  /\ UNCHANGED <<default_account, log>>
             ELSE /\ Goto("s_contract")
                  /\ default_account' = <<PyIndex(accounts, i.value).address>>
                  /\ log' = Append(log, "choose_account")
    /\ UNCHANGED <<script, stdout, accounts, owner_checks, txn_id, res,
                   trezorVars, sharedVars>>

\* lines 19-20: the operator picks an account by index
ChooseAccount ==
    /\ script = "sign" /\ pc = "s_choose"
    /\ \E typed \in IntInputs :
          LET i == ParseInt(typed) IN
          /\ prompts' = Append(prompts, [prompt |-> "choose account: ", typed |-> typed])
          /\ account_id' = <<typed>>
          /\ IF ~i.ok
             THEN /\ Raise("ValueError")
                  /\ UNCHANGED <<default_account, log>>
             ELSE IF ~PyIndexOk(i.value, Len(accounts))
             THEN /\ Raise("IndexError")
                  /\ UNCHANGED <<default_account, log>>
             ELSE /\ Goto("s_contract")
                  /\ default_account' = <<PyIndex(accounts, i.value).address>>
                  /\ log' = Append(log, "choose_account")
    /\ UNCHANGED <<script, stdout, accounts, owner_checks, txn_id, res,
                   trezorVars, sharedVars>>

\* lines 22-25: the operator names the contract, abi.json is read
Contract ==
    /\ script = "sign" /\ pc = "s_contract"
    /\ \E address \in AddressInputs, abi_read \in BOOLEAN :
          /\ prompts' = Append(prompts, [prompt |-> "multisig address: ", typed |-> address])
          /\ IF ~abi_read
             THEN /\ Raise("FileNotFoundError")
                  /\ UNCHANGED <<multisig, log>>
             ELSE IF ~IsAddress(address)
             THEN /\ Raise("InvalidAddress")
                  /\ log' = Append(log, "load_abi")
                  /\ UNCHANGED multisig
             ELSE /\ Goto("s_is_owner")
                  /\ multisig' = <<[address |-> address, abi |-> "abi.json"]>>
                  /\ log' = Append(log, "load_abi")
    /\ UNCHANGED <<script, stdout, ledgerVars, trezorVars, gas_price, txn,
                   device_requests, broadcasts>>

\* IsOwner without the return: the message is printed and the run goes on
IsOwnerNoReturn ==
    /\ script = "sign" /\ pc = "s_is_owner"
    /\ \/ /\ Raise("ConnectionError")
          /\ UNCHANGED <<owner_checks, log, stdout>>
       \/ \E result \in BOOLEAN :
             /\ owner_checks' =
                    Append(owner_checks, [account |-> default_account[1], result |-> result])
             /\ log' = Append(log, "is_owner")
             /\ Goto("s_txn_id")
             /\ IF ~result
                THEN stdout' = Append(stdout, [kind    |-> "not_owner",
                                               account |-> default_account[1]])
                ELSE UNCHANGED stdout
    /\ UNCHANGED <<script, prompts, accounts, account_id, default_account, txn_id, res,
                   trezorVars, sharedVars>>

\* lines 27-29: an account that is not an owner ends the run
IsOwner ==
    /\ script = "sign" /\ pc = "s_is_owner"
    /\ \/ /\ Raise("ConnectionError")
          /\ UNCHANGED <<owner_checks, log, stdout>>
       \/ \E result \in BOOLEAN :
             /\ owner_checks' =
                    Append(owner_checks, [account |-> default_account[1], result |-> result])
             /\ log' = Append(log, "is_owner")
             /\ IF ~result
                THEN /\ stdout' = Append(stdout, [kind    |-> "not_owner",
                                                  account |-> default_account[1]])
                     /\ Goto("done")
                ELSE /\ Goto("s_txn_id")
                     /\ UNCHANGED stdout
    /\ UNCHANGED <<script, prompts, accounts, account_id, default_account, txn_id, res,
                   trezorVars, sharedVars>>

\* line 32
TxnId ==
    /\ script = "sign" /\ pc = "s_txn_id"
    /\ \E typed \in IntInputs :
          LET i == ParseInt(typed) IN
          /\ prompts' = Append(prompts, [prompt |-> "txn id you want to confirm: ", typed |-> typed])
          /\ IF ~i.ok
             THEN /\ Raise("ValueError")
                  /\ UNCHANGED <<txn_id, log>>
             ELSE /\ Goto("s_gas_price")
                  /\ txn_id' = <<i.value>>
                  /\ log' = Append(log, "txn_id")
    /\ UNCHANGED <<script, stdout, accounts, account_id, default_account, owner_checks,
                   res, trezorVars, sharedVars>>

\* line 33
GasPrice ==
    /\ script = "sign" /\ pc = "s_gas_price"
    /\ \E typed \in IntInputs :
          LET i == ParseInt(typed)
              w == toWei(i.value, GweiInWei)
          IN
          /\ prompts' = Append(prompts, [prompt |-> "enter gas price: ", typed |-> typed])
          /\ IF ~i.ok \/ ~w.ok
             THEN /\ Raise("ValueError")
                  /\ UNCHANGED <<gas_price, log>>
             ELSE /\ Goto("s_build")
                  /\ gas_price' = <<w.value>>
                  /\ log' = Append(log, "gas_price")
    /\ UNCHANGED <<script, stdout, ledgerVars, trezorVars, multisig, txn,
                   device_requests, broadcasts>>

\* lines 34-37
Build ==
    /\ script = "sign" /\ pc = "s_build"
    /\ IF ~IsUint256(txn_id[1])
       THEN /\ Raise("ValidationError")
            /\ UNCHANGED <<txn, log>>
       ELSE \/ /\ Raise("ConnectionError")
               /\ UNCHANGED <<txn, log>>
            \/ \E nonce \in Nonces :
                  /\ Goto("s_show")
                  /\ txn' = <<BuildTransaction(multisig[1], default_account,
                                               confirmTransaction(txn_id[1]),
                                               [gas |-> GasLimitSign, gasPrice |-> gas_price[1]],
                                               nonce)>>
                  /\ log' = Append(log, "build")
    /\ UNCHANGED <<script, prompts, stdout, ledgerVars, trezorVars, multisig, gas_price,
                   device_requests, broadcasts>>

\* line 39
ShowTxn ==
    /\ script = "sign" /\ pc = "s_show"
    /\ Goto("s_confirm")
    /\ stdout' = Append(stdout, [kind |-> "txn", txn |-> txn[1]])
    /\ log' = Append(log, "show")
    /\ UNCHANGED <<script, prompts, ledgerVars, trezorVars, sharedVars>>

\* Confirm with the answer compared without regard to case
ConfirmAnyCase ==
    /\ script = "sign" /\ pc = "s_confirm"
    /\ \E typed \in AnswerInputs :
          /\ prompts' = Append(prompts, [prompt |-> "sign and broadcast (y/n)? ", typed |-> typed])
          /\ log' = Append(log, "confirm")
          /\ IF typed \in {<<"y">>, <<"Y">>} THEN Goto("s_send") ELSE Goto("done")
    /\ UNCHANGED <<script, stdout, ledgerVars, trezorVars, sharedVars>>

\* line 41
Confirm ==
    /\ script = "sign" /\ pc = "s_confirm"
    /\ \E typed \in AnswerInputs :
          /\ prompts' = Append(prompts, [prompt |-> "sign and broadcast (y/n)? ", typed |-> typed])
          /\ log' = Append(log, "confirm")
          /\ IF typed = <<"y">> THEN Goto("s_send") ELSE Goto("done")
    /\ UNCHANGED <<script, stdout, ledgerVars, trezorVars, sharedVars>>

\* SendTransaction with the signing step left out: the raw transaction goes to
\* the node without the device having been asked
SendTransactionUnsigned ==
    /\ script = "sign" /\ pc = "s_send"
    /\ \/ /\ Raise("LedgerError")
          /\ UNCHANGED <<device_requests, broadcasts, res, log>>
       \/ \E sig \in Signatures :
             LET raw == [request |-> txn[1], signature |-> sig] IN
             /\ Goto("s_print_res")
             /\ broadcasts' = Append(broadcasts, raw)
             /\ res' = <<[hash_of |-> raw]>>
             /\ log' = log \o <<"assemble", "broadcast">>
             /\ UNCHANGED device_requests
    /\ UNCHANGED <<script, prompts, stdout, accounts, account_id, default_account,
                   owner_checks, txn_id, trezorVars, multisig, gas_price, txn>>

\* line 42: the signer middleware has the device sign txn for its sender, then
\* the raw transaction goes to the node
SendTransaction ==
    /\ script = "sign" /\ pc = "s_send"
    /\ \/ /\ Raise("LedgerError")
          /\ UNCHANGED <<device_requests, broadcasts, res, log>>
       \/ \E sig \in Signatures, sent \in BOOLEAN :
             LET request == txn[1]
                 raw     == [request |-> request, signature |-> sig]
             IN
             /\ device_requests' = Append(device_requests, request)
             /\ IF sent
                THEN /\ Goto("s_print_res")
                     /\ broadcasts' = Append(broadcasts, raw)
                     /\ res' = <<[hash_of |-> raw]>>
                     /\ log' = log \o <<"sign", "assemble", "broadcast">>
                ELSE /\ Raise("ConnectionError")
                     /\ log' = log \o <<"sign", "assemble">>
                     /\ UNCHANGED <<broadcasts, res>>
    /\ UNCHANGED <<script, prompts, stdout, accounts, account_id, default_account,
                   owner_checks, txn_id, trezorVars, multisig, gas_price, txn>>

\* lines 43-44
PrintRes ==
    /\ script = "sign" /\ pc = "s_print_res"
    /\ Goto("done")
    /\ stdout' = Append(stdout, [kind |-> "res", res |-> res[1]])
    /\ log' = Append(log, "print")
    /\ UNCHANGED <<script, prompts, ledgerVars, trezorVars, sharedVars>>

SignNext ==
    \/ Connect \/ GetAccounts \/ ChooseAccount \/ Contract \/ IsOwner \/ TxnId
    \/ GasPrice \/ Build \/ ShowTxn \/ Confirm \/ SendTransaction \/ PrintRes

\* --------------------------------------------------------- sign_trezor.py
\* lines 10-25: module level, the provider is created and the ABI literal parsed
LoadModule ==
    /\ script = "sign_trezor" /\ pc = "t_module"
    /\ Goto("t_client")
    /\ log' = Append(log, "load_abi")
    /\ UNCHANGED <<script, prompts, stdout, ledgerVars, trezorVars, sharedVars>>

\* lines 28-30: the first connected device, whose features are printed
GetDefaultClient ==
    /\ script = "sign_trezor" /\ pc = "t_client"
    /\ \/ /\ Raise("TransportException")
          /\ UNCHANGED <<log, stdout>>
       \/ /\ Goto("t_contract")
          /\ log' = Append(log, "get_client")
          /\ stdout' = Append(stdout, [kind |-> "features"])
    /\ UNCHANGED <<script, prompts, ledgerVars, trezorVars, sharedVars>>

\* lines 32-34
TrezorContract ==
    /\ script = "sign_trezor" /\ pc = "t_contract"
    /\ Goto("t_gas_price")
    /\ multisig' = <<[address |-> "0xA2201234A4652a704f5539058Ccb9ab6EBcD486B",
                      abi     |-> "ABI"]>>
    /\ log' = Append(log, "contract")
    /\ UNCHANGED <<script, prompts, stdout, ledgerVars, trezorVars, gas_price, txn,
                   device_requests, broadcasts>>

\* lines 35-36
TrezorGasPrice ==
    /\ script = "sign_trezor" /\ pc = "t_gas_price"
    /\ \E typed \in IntInputs :
          LET i == ParseInt(typed)
              w == toWei(i.value, GweiInWei)
          IN
          /\ prompts' = Append(prompts, [prompt |-> "enter gas price: ", typed |-> typed])
          /\ IF ~i.ok \/ ~w.ok
             THEN /\ Raise("ValueError")
                  /\ UNCHANGED <<gas_price, gas_limit, log>>
             ELSE /\ Goto("t_build")
                  /\ gas_price' = <<w.value>>
                  /\ gas_limit' = <<GasLimitTrezor>>
                  /\ log' = Append(log, "gas_price")
    /\ UNCHANGED <<script, stdout, ledgerVars, x, u_data, tx, data, rlp_prefix,
                   multisig, txn, device_requests, broadcasts>>

\* lines 37-40: no default account is set, so the descriptor names no sender
TrezorBuild ==
    /\ script = "sign_trezor" /\ pc = "t_build"
    /\ \/ /\ Raise("ConnectionError")
          /\ UNCHANGED <<x, log>>
       \/ \E nonce \in Nonces :
             /\ Goto("t_data")
             /\ x' = <<BuildTransaction(multisig[1], <<>>, confirmTransaction(TrezorTxnId),
                                        [gas |-> gas_limit[1], gasPrice |-> gas_price[1]],
                                        nonce)>>
             /\ log' = Append(log, "build")
    /\ UNCHANGED <<script, prompts, stdout, ledgerVars, gas_limit, u_data, tx, data,
                   rlp_prefix, sharedVars>>

\* lines 42-45: the call data without its "0x", as bytes
TrezorData ==
    /\ script = "sign_trezor" /\ pc = "t_data"
    /\ LET b == FromHex(SubSeq(x[1].data, 3, Len(x[1].data))) IN
       IF ~b.ok
       THEN /\ Raise("ValueError")
            /\ UNCHANGED <<u_data, log>>
       ELSE /\ Goto("t_sign")
            /\ u_data' = <<b.value>>
            /\ log' = Append(log, "data")
    /\ UNCHANGED <<script, prompts, stdout, ledgerVars, gas_limit, x, tx, data,
                   rlp_prefix, sharedVars>>

\* lines 49-59: ethereum.sign_tx(client, n, nonce, gas_price, gas_limit, to, value,
\* data, chain_id)
SignTxRequest ==
    [n         |-> "44'/60'/0'/0/0",
     nonce     |-> 0,
     gas_price |-> gas_price[1],
     gas_limit |-> gas_limit[1],
     to        |-> "0xA2201234A4652a704f5539058Ccb9ab6EBcD486B",
     value     |-> 0,
     data      |-> u_data[1],
     chain_id  |-> TrezorChainId]

\* SignTx asking the device a second time after the first answer
SignTxRetried ==
    /\ script = "sign_trezor" /\ pc = "t_sign"
    /\ \/ /\ Raise("TrezorFailure")
          /\ UNCHANGED <<tx, device_requests, log>>
       \/ \E sig \in Signatures :
             /\ Goto("t_encode")
             /\ device_requests' = device_requests \o <<SignTxRequest, SignTxRequest>>
             /\ tx' = <<sig>>
             /\ log' = Append(log, "sign")
    /\ UNCHANGED <<script, prompts, stdout, ledgerVars, gas_limit, x, u_data, data,
                   rlp_prefix, multisig, gas_price, txn, broadcasts>>

SignTx ==
    /\ script = "sign_trezor" /\ pc = "t_sign"
    /\ \/ /\ Raise("TrezorFailure")
          /\ UNCHANGED <<tx, device_requests, log>>
       \/ \E sig \in Signatures :
             /\ Goto("t_encode")
             /\ device_requests' = Append(device_requests, SignTxRequest)
             /\ tx' = <<sig>>
             /\ log' = Append(log, "sign")
    /\ UNCHANGED <<script, prompts, stdout, ledgerVars, gas_limit, x, u_data, data,
                   rlp_prefix, multisig, gas_price, txn, broadcasts>>

\* line 63, with data = b"" of line 61
RlpPrefix(d) ==
    <<0, gas_price[1], gas_limit[1], "0xA2201234A4652a704f5539058Ccb9ab6EBcD486B", 0, d>>

\* lines 61-66
Encode ==
    /\ script = "sign_trezor" /\ pc = "t_encode"
    /\ Goto("t_print")
    /\ data' = << <<>> >>
    /\ rlp_prefix' = <<RlpPrefix(<<>>)>>
    /\ txn' = <<RlpEncode(RlpPrefix(<<>>) \o tx[1])>>
    /\ log' = Append(log, "assemble")
    /\ UNCHANGED <<script, prompts, stdout, ledgerVars, gas_limit, x, u_data, tx,
                   multisig, gas_price, device_requests, broadcasts>>

\* line 68
PrintHex ==
    /\ script = "sign_trezor" /\ pc = "t_print"
    /\ Goto("done")
    /\ stdout' = Append(stdout, [kind |-> "hex", txn |-> txn[1]])
    /\ log' = Append(log, "print")
    /\ UNCHANGED <<script, prompts, ledgerVars, trezorVars, sharedVars>>

TrezorNext ==
    \/ LoadModule \/ GetDefaultClient \/ TrezorContract \/ TrezorGasPrice
    \/ TrezorBuild \/ TrezorData \/ SignTx \/ Encode \/ PrintHex

Next == SignNext \/ TrezorNext

Spec == Init /\ [][Next]_vars

\* the operator answers and every call returns or raises: no step waits for ever
FairSpec == Spec /\ WF_vars(Next)

\* ------------------------------------------------------------ properties
\* what was typed at the prompts with the given text, in order
TypedAt(prompt) ==
    LET at == SelectSeq(prompts, LAMBDA e : e.prompt = prompt)
    IN  [i \in 1..Len(at) |-> at[i].typed]

Printed(kind) == SelectSeq(stdout, LAMBDA e : e.kind = kind)

InLog(step) == \E i \in 1..Len(log) : log[i] = step

\* the descriptor the build step returned
Descriptor == IF script = "sign" THEN txn ELSE x

\* the bytes of the call data a sign request carries
RequestBytes(request) ==
    IF script = "sign"
    THEN FromHex(SubSeq(request.data, 3, Len(request.data))).value
    ELSE request.data

\* the integer a big-endian byte string stands for
RECURSIVE FromBytesBE(_)
FromBytesBE(bytes) ==
    IF bytes = <<>> THEN 0
    ELSE 256 * FromBytesBE(SubSeq(bytes, 1, Len(bytes) - 1)) + bytes[Len(bytes)]

\* the transaction id a confirmTransaction call encodes
CallDataId(bytes) == FromBytesBE(SubSeq(bytes, Len(ConfirmTransactionSelector) + 1, Len(bytes)))

\* C1: in sign_trezor.py the six fields of the encoded tuple are the six fields
\* the device was asked to sign, followed by the device's signature (v, r, s).
C1_EncodedFieldsAreSignedFields ==
    (script = "sign_trezor" /\ txn # <<>>) =>
        LET items   == txn[1].rlp
            request == device_requests[1]
        IN  /\ Len(items) = 9
            /\ items[1] = request.nonce
            /\ items[2] = request.gas_price
            /\ items[3] = request.gas_limit
            /\ items[4] = request.to
            /\ items[5] = request.value
            /\ items[6] = request.data
            /\ <<items[7], items[8], items[9]>> = tx[1]

\* C2: every field of a sign request (destination, value, call data, gas limit,
\* gas price, nonce) equals that field of the descriptor the build step
\* returned, value is zero and the destination is the multisig contract.
C2_DescriptorHandedVerbatim ==
    \A i \in 1..Len(device_requests) :
        LET request == device_requests[i]
            built   == Descriptor[1]
        IN  /\ Descriptor # <<>>
            /\ request.to = built.to
            /\ request.to = multisig[1].address
            /\ request.value = built.value
            /\ request.value = 0
            /\ <<"0", "x">> \o ToHex(RequestBytes(request)) = built.data
            /\ request.nonce = built.nonce
            /\ IF script = "sign"
               THEN request.gas = built.gas /\ request.gasPrice = built.gasPrice
               ELSE request.gas_limit = built.gas /\ request.gas_price = built.gasPrice

\* C3: the id in the confirmTransaction call data that is signed is the
\* transaction id the operator supplied for the run.
C3_SignedIdIsOperatorsId ==
    \A i \in 1..Len(device_requests) :
        /\ Len(TypedAt("txn id you want to confirm: ")) = 1
        /\ ParseInt(TypedAt("txn id you want to confirm: ")[1]).ok
        /\ CallDataId(RequestBytes(device_requests[i]))
               = ParseInt(TypedAt("txn id you want to confirm: ")[1]).value

\* step a is in the log before every occurrence of step b
Before(a, b) ==
    \A j \in 1..Len(log) : log[j] = b => \E i \in 1..(j - 1) : log[i] = a

\* C4: the interface is loaded before the build, the build precedes the sign
\* request, the sign request precedes the assembly, and a signed transaction
\* is printed or broadcast only after the device signed it; no step is skipped.
C4_StepsInOrder ==
    /\ Before("load_abi", "build")
    /\ Before("build", "sign")
    /\ Before("sign", "assemble")
    /\ Before("assemble", "broadcast")
    /\ Before("assemble", "print")
    /\ (Descriptor # <<>>) = InLog("build")
    /\ (device_requests # <<>>) = InLog("sign")
    /\ (broadcasts # <<>>) = InLog("broadcast")
    /\ Descriptor # <<>> => multisig # <<>>
    /\ device_requests # <<>> => Descriptor # <<>>
    /\ broadcasts # <<>> => device_requests # <<>>
    /\ (script = "sign_trezor" /\ txn # <<>>) => (device_requests # <<>> /\ tx # <<>>)
    /\ \A i \in 1..Len(stdout) :
          stdout[i].kind = "hex" =>
              /\ device_requests # <<>>
              /\ txn # <<>>
              /\ stdout[i].txn = txn[1]
              /\ SubSeq(stdout[i].txn.rlp, 7, 9) = tx[1]

\* C4 witness: sign_trezor.py has printed the signed transaction
C4_Witness ==
    /\ script = "sign_trezor"
    /\ pc = "done"
    /\ Len(Printed("hex")) = 1
    /\ log = <<"load_abi", "get_client", "contract", "gas_price", "build", "data",
               "sign", "assemble", "print">>

\* the index typed at "choose account: ", when it is an integer
TypedIndex == ParseInt(account_id[1])

\* text typed at a prompt read with int() that is no integer
BadIntTyped ==
    \E i \in 1..Len(prompts) :
        /\ prompts[i].prompt \in {"choose account: ", "txn id you want to confirm: ",
                                  "enter gas price: "}
        /\ ~ParseInt(prompts[i].typed).ok

\* the run ended with an exception, before anything was signed or sent
EndedUnsigned ==
    /\ pc = "raised"
    /\ error # <<>>
    /\ device_requests = <<>>
    /\ broadcasts = <<>>
    /\ Printed("hex") = <<>>

\* C5 as stated: a failed step ends the run there and nothing runs after it;
\* text that is no integer and an account index that is none of the listed
\* indices 0 .. n-1 are such failures.
C5_AsStated ==
    /\ error # <<>> => (pc = "raised" /\ ~ENABLED Next)
    /\ BadIntTyped => EndedUnsigned
    /\ (account_id # <<>> /\ TypedIndex.ok
            /\ TypedIndex.value \notin 0..(AccountCount - 1)) => EndedUnsigned

\* C5 amended: as C5, with the failing account indices being those outside
\* -n .. n-1 (the indices -n .. -1 select an account counting from the end).
C5_FailureEndsRun ==
    /\ error # <<>> => (pc = "raised" /\ ~ENABLED Next)
    /\ pc = "raised" => error # <<>>
    /\ BadIntTyped => EndedUnsigned
    /\ (account_id # <<>> /\ TypedIndex.ok
            /\ TypedIndex.value \notin (0 - AccountCount)..(AccountCount - 1)) => EndedUnsigned
    /\ (account_id # <<>> /\ TypedIndex.ok
            /\ TypedIndex.value \in (0 - AccountCount)..(AccountCount - 1))
         => default_account # <<>>

\* C5 witness: a run that failed at a prompt after earlier steps had run
C5_Witness ==
    /\ script = "sign"
    /\ pc = "raised"
    /\ error = <<"ValueError">>
    /\ Len(prompts) = 3
    /\ ~ParseInt(prompts[3].typed).ok

Terminated == pc \in {"done", "raised"}

\* nothing of a run happens twice
AtMostOnce ==
    /\ \A i, j \in 1..Len(prompts) : prompts[i].prompt = prompts[j].prompt => i = j
    /\ \A i, j \in 1..Len(log) : log[i] = log[j] => i = j
    /\ Len(device_requests) <= 1
    /\ Len(broadcasts) <= 1
    /\ Len(Printed("hex")) <= 1
    /\ Len(Printed("res")) <= 1
    /\ script = "sign" => Printed("hex") = <<>>
    /\ script = "sign_trezor" => broadcasts = <<>>

\* C6: every run terminates, each prompt is asked at most once, the device is
\* asked to sign at most once and at most one transaction is broadcast
\* (sign.py) or printed (sign_trezor.py).
C6_LinearRunTerminates == [](AtMostOnce) /\ <>Terminated

\* C6 witness: a complete run of sign.py, every prompt asked and answered
C6_Witness ==
    /\ script = "sign"
    /\ pc = "done"
    /\ Len(prompts) = 5
    /\ Len(device_requests) = 1
    /\ Len(Printed("res")) = 1

ConfirmAnswers == TypedAt("sign and broadcast (y/n)? ")

\* C7: in sign.py a transaction reaches the signer or the node only after it
\* was displayed and the operator answered exactly "y"; any other answer ends
\* the run with nothing signed or broadcast.
C7_OnlyOnExactYes ==
    script = "sign" =>
        /\ \A i \in 1..Len(device_requests) :
              /\ ConfirmAnswers = << <<"y">> >>
              /\ \E k \in 1..Len(stdout) :
                    stdout[k].kind = "txn" /\ stdout[k].txn = device_requests[i]
        /\ \A i \in 1..Len(broadcasts) :
              /\ ConfirmAnswers = << <<"y">> >>
              /\ \E k \in 1..Len(stdout) :
                    stdout[k].kind = "txn" /\ stdout[k].txn = broadcasts[i].request
        /\ (ConfirmAnswers # <<>> /\ ConfirmAnswers[1] # <<"y">>) =>
              /\ pc = "done"
              /\ error = <<>>
              /\ device_requests = <<>>
              /\ broadcasts = <<>>
              /\ ~ENABLED Next

\* C7 witness: the operator answered "y" and the transaction was broadcast
C7_Witness ==
    /\ script = "sign"
    /\ ConfirmAnswers = << <<"y">> >>
    /\ Len(broadcasts) = 1

NotOwner == \E j \in 1..Len(owner_checks) : ~owner_checks[j].result

\* C8: in sign.py, when the contract reports the account is no owner, the
\* message is printed and the run ends: no transaction id or gas price prompt,
\* no transaction built, nothing signed or broadcast.
C8_NotOwnerEndsRun ==
    (script = "sign" /\ NotOwner) =>
        /\ pc = "done"
        /\ error = <<>>
        /\ ~ENABLED Next
        /\ Len(Printed("not_owner")) = 1
        /\ Printed("not_owner")[1].account = default_account[1]
        /\ TypedAt("txn id you want to confirm: ") = <<>>
        /\ TypedAt("enter gas price: ") = <<>>
        /\ txn_id = <<>>
        /\ gas_price = <<>>
        /\ txn = <<>>
        /\ device_requests = <<>>
        /\ broadcasts = <<>>

\* C8 witness: isOwner was asked for the chosen account and answered no
C8_Witness ==
    /\ script = "sign"
    /\ Len(owner_checks) = 1
    /\ ~owner_checks[1].result
    /\ Len(Printed("not_owner")) = 1

\* the listed account the typed index stands for, counted from 0
ChosenListed ==
    IF TypedIndex.value < 0 THEN TypedIndex.value + AccountCount ELSE TypedIndex.value

\* C9: in sign.py the sender of a broadcast transaction is the account the
\* operator chose by index from the listed accounts, and the isOwner check was
\* made for that account and returned true in the same run.
C9_SenderIsCheckedChoice ==
    script = "sign" =>
        /\ default_account # <<>> =>
              /\ TypedIndex.ok
              /\ default_account[1] = <<"ledger", ChosenListed>>
              /\ default_account[1]
                     = Printed("accounts")[1].accounts[ChosenListed + 1].address
        /\ \A j \in 1..Len(owner_checks) : owner_checks[j].account = default_account[1]
        /\ \A i \in 1..Len(device_requests) :
              /\ device_requests[i].from = default_account
              /\ \E j \in 1..Len(owner_checks) :
                    /\ owner_checks[j].account = device_requests[i].from[1]
                    /\ owner_checks[j].result
        /\ \A i \in 1..Len(broadcasts) :
              /\ broadcasts[i].request.from = <<<<"ledger", ChosenListed>>>>
              /\ \E j \in 1..Len(owner_checks) :
                    /\ owner_checks[j].account = broadcasts[i].request.from[1]
                    /\ owner_checks[j].result
              /\ ~NotOwner

\* C9 witness: a transaction was broadcast from an account chosen from the end
C9_Witness ==
    /\ script = "sign"
    /\ Len(broadcasts) = 1
    /\ TypedIndex.value = 0 - 2
    /\ broadcasts[1].request.from = <<<<"ledger", 3>>>>

\* the gas price in gwei typed by the operator
TypedGwei == ParseInt(TypedAt("enter gas price: ")[1]).value

\* C10: the gas price of the built transaction is g * 10^9 wei for the typed
\* g and its gas limit is 200000, whatever else was typed; sign_trezor.py uses
\* the same two values in the sign request and in the serialised output.
C10_GasPriceAndLimit ==
    Descriptor # <<>> =>
        /\ TypedGwei >= 0
        /\ Descriptor[1].gasPrice = [hi |-> TypedGwei, lo |-> 0]
        /\ Descriptor[1].gas = 200000
        /\ script = "sign_trezor" =>
              /\ \A i \in 1..Len(device_requests) :
                    /\ device_requests[i].gas_price = [hi |-> TypedGwei, lo |-> 0]
                    /\ device_requests[i].gas_limit = 200000
              /\ txn # <<>> =>
                    /\ txn[1].rlp[2] = [hi |-> TypedGwei, lo |-> 0]
                    /\ txn[1].rlp[3] = 200000

\* C10 witness: sign_trezor.py serialised a transaction with a gas price typed
\* as 1_0 gwei
C10_Witness ==
    /\ script = "sign_trezor"
    /\ txn # <<>>
    /\ TypedAt("enter gas price: ") = << <<"1", "_", "0">> >>
    /\ txn[1].rlp[2] = [hi |-> 10, lo |-> 0]

====
